---- MODULE Spec2Model ----
(***************************************************************************)
(* Model of hikari.impl.stateful_event_factory.StatefulEventFactoryImpl:   *)
(* the gateway event handlers that keep the cache in step with the remote  *)
(* service and hand events to the dispatcher.                              *)
(*                                                                         *)
(* A handler is straight-line code: one decode, a fixed series of cache    *)
(* calls, one awaited dispatch.  Each on_xxx operator below yields that    *)
(* series of calls for a raw payload, in source order; the actions run it  *)
(* one call at a time.  Other tasks of the event loop (readers of the      *)
(* cache) run only while the handler is suspended at an await.             *)
(***************************************************************************)
EXTENDS Integers, Sequences, FiniteSets, TLC

\* ---- bounds ------------------------------------------------------------
NumGuilds   == 2
NumChildren == 1
NumUsers    == 1
MaxEvents   == 2

GuildIds == 1..NumGuilds
ChildIds == 1..NumChildren
UserIds  == 1..NumUsers
NoUser   == 0
NoId     == 0

\* The six child collections of a guild, in the order of on_guild_create.
KindOrder == <<"channels", "emojis", "roles", "members", "presences", "voice_states">>
Kinds     == {KindOrder[i] : i \in 1..Len(KindOrder)}

VARIABLES
    cache,      \* self.app.cache: me, guilds, unavailable_guilds, children
    sink,       \* events handed to self.dispatch for the payload in hand, in order
    last_event, \* per guild, the type of the last guild event the sink received
    delivered,  \* the numbers of the payloads whose events the sink received, in order
    payload,    \* the raw payload of the handler in flight, NoPayload when none is
    calls,      \* the calls of that handler, in source order
    pc,         \* index of the next call of `calls`; Len(calls)+1 at its end
    pre,        \* the cache when that handler started
    raised,     \* TRUE when that handler raised
    errors,     \* number of payloads whose handler raised
    nEvents,    \* number of payloads received
    observed    \* what a reader task saw of a collection during that handler

vars == <<cache, sink, last_event, delivered, payload, calls, pc, pre, raised, errors, nEvents, observed>>

\* ---- sequences helpers ---------------------------------------------------
RECURSIVE SetToSeq(_)
\* values() of a decoded mapping: the ids in ascending order
SetToSeq(S) ==
    IF S = {} THEN <<>>
    ELSE LET m == CHOOSE x \in S : \A y \in S : x <= y
         IN  <<m>> \o SetToSeq(S \ {m})

RECURSIVE Concat(_)
Concat(ss) == IF ss = <<>> THEN <<>> ELSE Head(ss) \o Concat(Tail(ss))

\* ---- raw payloads (the transport's input) --------------------------------
NoChildren == [k \in Kinds |-> {}]

\* A raw gateway payload.  `unavailable` is "missing" when the JSON object
\* has no such key.  `malformed` payloads are the ones the decoder rejects.
Raw(t, malformed, guild, unavailable, children, user, keys, child) ==
    [t |-> t, malformed |-> malformed, guild |-> guild, unavailable |-> unavailable,
     children |-> children, user |-> user, keys |-> keys, child |-> child]

NoPayload == Raw("none", FALSE, NoId, "missing", NoChildren, NoUser, {}, NoId)

\* the payload of a synthetic event, which its handler ignores
PlainPayloads(t) == {Raw(t, FALSE, NoId, "missing", NoChildren, NoUser, {}, NoId)}

\* The child collections a guild payload carries: S for channels, roles and
\* presences, the other ids for emojis, members and voice states.
ChildrenOf(S) ==
    [k \in Kinds |-> IF k \in {"channels", "roles", "presences"} THEN S ELSE ChildIds \ S]

ReadyPayloads ==
    {Raw("READY", FALSE, NoId, "missing", NoChildren, u, K, NoId) :
        u \in UserIds, K \in SUBSET GuildIds}
    \cup {Raw("READY", TRUE, NoId, "missing", NoChildren, NoUser, {}, NoId)}

GuildPayloads(t) ==
    {Raw(t, FALSE, g, "missing", ChildrenOf(S), NoUser, {}, NoId) :
        g \in GuildIds, S \in SUBSET ChildIds}
    \cup {Raw(t, TRUE, g, "missing", NoChildren, NoUser, {}, NoId) : g \in GuildIds}

GuildDeletePayloads ==
    {Raw("GUILD_DELETE", m, g, u, NoChildren, NoUser, {}, NoId) :
        m \in BOOLEAN, g \in GuildIds, u \in {"missing", "false", "true"}}

ChildPayloads(t) ==
    {Raw(t, FALSE, g, "missing", NoChildren, NoUser, {}, c) :
        g \in GuildIds, c \in ChildIds}
    \cup {Raw(t, TRUE, NoId, "missing", NoChildren, NoUser, {}, NoId)}

UserPayloads(t) ==
    {Raw(t, m, NoId, "missing", NoChildren, u, {}, NoId) : m \in BOOLEAN, u \in UserIds}

\* payload.get(key, default) for the one key the handlers read themselves
\* variant: a payload without the key counts as unavailable
PayloadGetUnavailable_missing_is_true(p, default) ==
    IF p.unavailable = "missing" THEN TRUE ELSE p.unavailable = "true"

PayloadGetUnavailable(p, default) ==
    IF p.unavailable = "missing" THEN default ELSE p.unavailable = "true"

\* ---- events ----------------------------------------------------------------
Event(type, guild, keys) == [type |-> type, guild |-> guild, keys |-> keys]

\* ---- the decoder (entity_factory) ------------------------------------------
\* A decoded mapping id -> child record; every child names its guild.
ChildMap(g, S) == [c \in S |-> [id |-> c, guild_id |-> g]]

\* mapping.values(): the records in ascending id order
Values(m) ==
    LET ids == SetToSeq(DOMAIN m) IN [i \in 1..Len(ids) |-> m[ids[i]]]

Decoded(p, type) ==
    [ok |-> ~p.malformed,
     ev |-> Event(type, p.guild, p.keys),
     id |-> p.guild,
     guild |-> [id |-> p.guild],
     my_user |-> p.user,
     unavailable_guilds |-> [g \in p.keys |-> [id |-> g]],
     channels |-> ChildMap(p.guild, p.children["channels"]),
     emojis |-> ChildMap(p.guild, p.children["emojis"]),
     roles |-> ChildMap(p.guild, p.children["roles"]),
     members |-> ChildMap(p.guild, p.children["members"]),
     presences |-> ChildMap(p.guild, p.children["presences"]),
     voice_states |-> ChildMap(p.guild, p.children["voice_states"])]

deserialize_ready_event(p)             == Decoded(p, "ReadyEvent")
deserialize_guild_create_event(p)      == Decoded(p, "GuildCreateEvent")
deserialize_guild_update_event(p)      == Decoded(p, "GuildUpdateEvent")
deserialize_guild_unavailable_event(p) == Decoded(p, "GuildUnavailableEvent")
deserialize_guild_leave_event(p)       == Decoded(p, "GuildLeaveEvent")

\* ---- calls a handler makes ---------------------------------------------------
Call(op, kind, guild, id, keys, flag, event) ==
    [op |-> op, kind |-> kind, guild |-> guild, id |-> id, keys |-> keys,
     flag |-> flag, event |-> event]

NoEvent == Event("none", NoId, {})

DecodeError == Call("raise", "none", NoId, NoId, {}, FALSE, NoEvent)
dispatch(event) == Call("dispatch", "none", NoId, NoId, {}, FALSE, event)

update_me(user) == Call("update_me", "none", NoId, user, {}, FALSE, NoEvent)
set_initial_unavailable_guilds(keys) ==
    Call("set_initial_unavailable_guilds", "none", NoId, NoId, keys, FALSE, NoEvent)
update_guild(guild) == Call("update_guild", "none", guild.id, NoId, {}, FALSE, NoEvent)
delete_guild(id) == Call("delete_guild", "none", id, NoId, {}, FALSE, NoEvent)
set_guild_availability(id, available) ==
    Call("set_guild_availability", "none", id, NoId, {}, available, NoEvent)

ClearCall(kind, guild_id) == Call("clear", kind, guild_id, NoId, {}, FALSE, NoEvent)
SetCall(kind, child) == Call("set", kind, child.guild_id, child.id, {}, FALSE, NoEvent)

clear_guild_channels(guild_id) == ClearCall("channels", guild_id)
clear_emojis(guild_id)         == ClearCall("emojis", guild_id)
clear_roles(guild_id)          == ClearCall("roles", guild_id)
clear_members(guild_id)        == ClearCall("members", guild_id)
clear_presences(guild_id)      == ClearCall("presences", guild_id)
set_guild_channel(channel)     == SetCall("channels", channel)
set_emoji(emoji)               == SetCall("emojis", emoji)
set_role(role)                 == SetCall("roles", role)
set_member(member)             == SetCall("members", member)
set_presence(presence)         == SetCall("presences", presence)
set_voice_state(voice_state)   == SetCall("voice_states", voice_state)


\* ---- the cache (self.app.cache) ----------------------------------------------
EmptyCache ==
    [me |-> NoUser, guilds |-> {}, unavailable_guilds |-> {},
     children |-> [k \in Kinds |-> [g \in GuildIds |-> {}]]]

cache_update_me(c, user) == [c EXCEPT !.me = user]

\* replaces the Unavailable-Guild Set
cache_set_initial_unavailable_guilds(c, keys) == [c EXCEPT !.unavailable_guilds = keys]

\* upserts the guild record; a guild with a full record is available
cache_update_guild(c, g) ==
    [c EXCEPT !.guilds = @ \cup {g}, !.unavailable_guilds = @ \ {g}]

\* removes the guild record and, cascading, every child collection of the guild
cache_delete_guild(c, g) ==
    [c EXCEPT !.guilds = @ \ {g},
              !.unavailable_guilds = @ \ {g},
              !.children = [k \in Kinds |-> [@[k] EXCEPT ![g] = {}]]]

cache_set_guild_availability(c, g, available) ==
    [c EXCEPT !.unavailable_guilds = IF available THEN @ \ {g} ELSE @ \cup {g}]

\* clear(parentKey, childKind), set(parentKey, childKey, record)
cache_clear(c, kind, g) == [c EXCEPT !.children[kind][g] = {}]
cache_set(c, kind, g, id) == [c EXCEPT !.children[kind][g] = @ \cup {id}]

Apply(c, call) ==
    CASE call.op = "update_me" -> cache_update_me(c, call.id)
      [] call.op = "set_initial_unavailable_guilds" ->
            cache_set_initial_unavailable_guilds(c, call.keys)
      [] call.op = "update_guild" -> cache_update_guild(c, call.guild)
      [] call.op = "delete_guild" -> cache_delete_guild(c, call.guild)
      [] call.op = "set_guild_availability" ->
            cache_set_guild_availability(c, call.guild, call.flag)
      [] call.op = "clear" -> cache_clear(c, call.kind, call.guild)
      [] call.op = "set" -> cache_set(c, call.kind, call.guild, call.id)
      [] OTHER -> c

\* the availability of a guild, as a reader of the cache finds it
IsUnavailable(c, g) == g \in c.unavailable_guilds
IsAvailable(c, g)   == g \in c.guilds /\ g \notin c.unavailable_guilds
IsAbsent(c, g)      == g \notin c.guilds /\ g \notin c.unavailable_guilds

\* ---- the handlers: the calls each makes for a payload, in source order -------
\* a handler whose body is `await self.dispatch(deserialize_xxx(payload))`
DecodeAndDispatch(p, type) ==
    LET event == Decoded(p, type) IN
    IF ~event.ok THEN <<DecodeError>> ELSE <<dispatch(event.ev)>>

on_connected(p)    == <<dispatch(Event("ConnectedEvent", NoId, {}))>>
on_disconnected(p) == <<dispatch(Event("DisconnectedEvent", NoId, {}))>>
on_resumed(p)      == <<dispatch(Event("ResumedEvent", NoId, {}))>>

\* variant of on_ready: the event is dispatched before the set is seeded
on_ready_dispatch_first(p) ==
    LET event == deserialize_ready_event(p) IN
    IF ~event.ok THEN <<DecodeError>> ELSE
    <<update_me(event.my_user),
      dispatch(event.ev),
      set_initial_unavailable_guilds(DOMAIN event.unavailable_guilds)>>

\* variant of on_ready: the guilds are marked unavailable one by one, on top of
\* the set that is there
on_ready_adds_to_set(p) ==
    LET event == deserialize_ready_event(p)
        ids == SetToSeq(DOMAIN event.unavailable_guilds) IN
    IF ~event.ok THEN <<DecodeError>> ELSE
    Concat(<<
        <<update_me(event.my_user)>>,
        [i \in DOMAIN ids |-> set_guild_availability(ids[i], FALSE)],
        <<dispatch(event.ev)>> >>)

\* variant of on_ready: the set is seeded before the own user is stored
on_ready_seed_first(p) ==
    LET event == deserialize_ready_event(p) IN
    IF ~event.ok THEN <<DecodeError>> ELSE
    <<set_initial_unavailable_guilds(DOMAIN event.unavailable_guilds),
      update_me(event.my_user),
      dispatch(event.ev)>>

on_ready(p) ==
    LET event == deserialize_ready_event(p) IN
    IF ~event.ok THEN <<DecodeError>> ELSE
    <<update_me(event.my_user),
      set_initial_unavailable_guilds(DOMAIN event.unavailable_guilds),
      dispatch(event.ev)>>

on_channel_create(p)      == DecodeAndDispatch(p, "ChannelCreateEvent")
on_channel_update(p)      == DecodeAndDispatch(p, "ChannelUpdateEvent")
on_channel_delete(p)      == DecodeAndDispatch(p, "ChannelDeleteEvent")
on_channel_pins_update(p) == DecodeAndDispatch(p, "ChannelPinsUpdateEvent")

\* variant of on_guild_create: the guild is upserted from the raw payload,
\* before the payload is decoded
on_guild_create_upsert_before_decode(p) ==
    LET event == deserialize_guild_create_event(p) IN
    IF ~event.ok THEN <<update_guild([id |-> p.guild]), DecodeError>> ELSE
    Concat(<<
        <<update_guild(event.guild)>>,
        <<clear_guild_channels(event.guild.id)>>, [i \in DOMAIN Values(event.channels) |-> set_guild_channel(Values(event.channels)[i])],
        <<clear_emojis(event.guild.id)>>,         [i \in DOMAIN Values(event.emojis) |-> set_emoji(Values(event.emojis)[i])],
        <<clear_roles(event.guild.id)>>,          [i \in DOMAIN Values(event.roles) |-> set_role(Values(event.roles)[i])],
        <<clear_members(event.guild.id)>>,        [i \in DOMAIN Values(event.members) |-> set_member(Values(event.members)[i])],
        <<clear_presences(event.guild.id)>>,      [i \in DOMAIN Values(event.presences) |-> set_presence(Values(event.presences)[i])],
        [i \in DOMAIN Values(event.voice_states) |-> set_voice_state(Values(event.voice_states)[i])],
        <<dispatch(event.ev)>> >>)

\* variant of on_guild_create: the guild is left marked as it was, by a trailing
\* set_guild_availability with the old unavailable flag of the raw payload
on_guild_create_keeps_unavailable(p) ==
    LET event == deserialize_guild_create_event(p) IN
    IF ~event.ok THEN <<DecodeError>> ELSE
    Concat(<<
        <<update_guild(event.guild)>>,
        <<clear_guild_channels(event.guild.id)>>, [i \in DOMAIN Values(event.channels) |-> set_guild_channel(Values(event.channels)[i])],
        <<clear_emojis(event.guild.id)>>,         [i \in DOMAIN Values(event.emojis) |-> set_emoji(Values(event.emojis)[i])],
        <<clear_roles(event.guild.id)>>,          [i \in DOMAIN Values(event.roles) |-> set_role(Values(event.roles)[i])],
        <<clear_members(event.guild.id)>>,        [i \in DOMAIN Values(event.members) |-> set_member(Values(event.members)[i])],
        <<clear_presences(event.guild.id)>>,      [i \in DOMAIN Values(event.presences) |-> set_presence(Values(event.presences)[i])],
        [i \in DOMAIN Values(event.voice_states) |-> set_voice_state(Values(event.voice_states)[i])],
        <<set_guild_availability(event.guild.id, PayloadGetUnavailable(p, FALSE))>>,
        <<dispatch(event.ev)>> >>)

\* variant of on_guild_create: the guild record is not upserted
on_guild_create_no_upsert(p) ==
    LET event == deserialize_guild_create_event(p) IN
    IF ~event.ok THEN <<DecodeError>> ELSE
    Concat(<<
        <<clear_guild_channels(event.guild.id)>>, [i \in DOMAIN Values(event.channels) |-> set_guild_channel(Values(event.channels)[i])],
        <<clear_emojis(event.guild.id)>>,         [i \in DOMAIN Values(event.emojis) |-> set_emoji(Values(event.emojis)[i])],
        <<clear_roles(event.guild.id)>>,          [i \in DOMAIN Values(event.roles) |-> set_role(Values(event.roles)[i])],
        <<clear_members(event.guild.id)>>,        [i \in DOMAIN Values(event.members) |-> set_member(Values(event.members)[i])],
        <<clear_presences(event.guild.id)>>,      [i \in DOMAIN Values(event.presences) |-> set_presence(Values(event.presences)[i])],
        [i \in DOMAIN Values(event.voice_states) |-> set_voice_state(Values(event.voice_states)[i])],
        <<dispatch(event.ev)>> >>)

on_guild_create(p) ==
    LET event == deserialize_guild_create_event(p) IN
    IF ~event.ok THEN <<DecodeError>> ELSE
    Concat(<<
        <<update_guild(event.guild)>>,
        <<clear_guild_channels(event.guild.id)>>, [i \in DOMAIN Values(event.channels) |-> set_guild_channel(Values(event.channels)[i])],
        <<clear_emojis(event.guild.id)>>,         [i \in DOMAIN Values(event.emojis) |-> set_emoji(Values(event.emojis)[i])],
        <<clear_roles(event.guild.id)>>,          [i \in DOMAIN Values(event.roles) |-> set_role(Values(event.roles)[i])],
        <<clear_members(event.guild.id)>>,        [i \in DOMAIN Values(event.members) |-> set_member(Values(event.members)[i])],
        <<clear_presences(event.guild.id)>>,      [i \in DOMAIN Values(event.presences) |-> set_presence(Values(event.presences)[i])],
        [i \in DOMAIN Values(event.voice_states) |-> set_voice_state(Values(event.voice_states)[i])],
        <<dispatch(event.ev)>> >>)

\* variant of on_guild_update: the roles of every guild are cleared
on_guild_update_clears_all_roles(p) ==
    LET event == deserialize_guild_update_event(p)
        ids == SetToSeq(GuildIds) IN
    IF ~event.ok THEN <<DecodeError>> ELSE
    Concat(<<
        <<update_guild(event.guild)>>,
        [i \in DOMAIN ids |-> clear_roles(ids[i])],
        [i \in DOMAIN Values(event.roles) |-> set_role(Values(event.roles)[i])],
        <<clear_emojis(event.guild.id)>>, [i \in DOMAIN Values(event.emojis) |-> set_emoji(Values(event.emojis)[i])],
        <<dispatch(event.ev)>> >>)

\* variant of on_guild_update: the roles are set without being cleared first
on_guild_update_merges_roles(p) ==
    LET event == deserialize_guild_update_event(p) IN
    IF ~event.ok THEN <<DecodeError>> ELSE
    Concat(<<
        <<update_guild(event.guild)>>,
        [i \in DOMAIN Values(event.roles) |-> set_role(Values(event.roles)[i])],
        <<clear_emojis(event.guild.id)>>, [i \in DOMAIN Values(event.emojis) |-> set_emoji(Values(event.emojis)[i])],
        <<dispatch(event.ev)>> >>)

\* variant of on_guild_update: the channels are cleared as well
on_guild_update_clears_channels(p) ==
    LET event == deserialize_guild_update_event(p) IN
    IF ~event.ok THEN <<DecodeError>> ELSE
    Concat(<<
        <<update_guild(event.guild)>>,
        <<clear_guild_channels(event.guild.id)>>,
        <<clear_roles(event.guild.id)>>,  [i \in DOMAIN Values(event.roles) |-> set_role(Values(event.roles)[i])],
        <<clear_emojis(event.guild.id)>>, [i \in DOMAIN Values(event.emojis) |-> set_emoji(Values(event.emojis)[i])],
        <<dispatch(event.ev)>> >>)

on_guild_update(p) ==
    LET event == deserialize_guild_update_event(p) IN
    IF ~event.ok THEN <<DecodeError>> ELSE
    Concat(<<
        <<update_guild(event.guild)>>,
        <<clear_roles(event.guild.id)>>,  [i \in DOMAIN Values(event.roles) |-> set_role(Values(event.roles)[i])],
        <<clear_emojis(event.guild.id)>>, [i \in DOMAIN Values(event.emojis) |-> set_emoji(Values(event.emojis)[i])],
        <<dispatch(event.ev)>> >>)

\* variant of on_guild_delete: the unavailable branch dispatches its event itself,
\* and the common dispatch at the end dispatches it again
on_guild_delete_dispatches_twice(p) ==
    IF PayloadGetUnavailable(p, FALSE)
    THEN LET event == deserialize_guild_unavailable_event(p) IN
         IF ~event.ok THEN <<DecodeError>> ELSE
         <<set_guild_availability(event.id, FALSE), dispatch(event.ev), dispatch(event.ev)>>
    ELSE LET event == deserialize_guild_leave_event(p) IN
         IF ~event.ok THEN <<DecodeError>> ELSE
         <<delete_guild(event.id), dispatch(event.ev)>>

\* variant of on_guild_delete: the leave branch does not delete the guild
on_guild_delete_leave_keeps_guild(p) ==
    IF PayloadGetUnavailable(p, FALSE)
    THEN LET event == deserialize_guild_unavailable_event(p) IN
         IF ~event.ok THEN <<DecodeError>> ELSE
         <<set_guild_availability(event.id, FALSE), dispatch(event.ev)>>
    ELSE LET event == deserialize_guild_leave_event(p) IN
         IF ~event.ok THEN <<DecodeError>> ELSE
         <<dispatch(event.ev)>>

\* variant of on_guild_delete: no `else`, the unavailable branch falls through
\* into the leave branch
on_guild_delete_fallthrough(p) ==
    IF PayloadGetUnavailable(p, FALSE)
    THEN LET event == deserialize_guild_unavailable_event(p)
             leave == deserialize_guild_leave_event(p) IN
         IF ~event.ok THEN <<DecodeError>> ELSE
         <<set_guild_availability(event.id, FALSE), delete_guild(leave.id),
           dispatch(leave.ev)>>
    ELSE LET event == deserialize_guild_leave_event(p) IN
         IF ~event.ok THEN <<DecodeError>> ELSE
         <<delete_guild(event.id), dispatch(event.ev)>>

\* variant of on_guild_delete: the leave branch marks the guild unavailable after
\* deleting it
on_guild_delete_leave_marks_unavailable(p) ==
    IF PayloadGetUnavailable(p, FALSE)
    THEN LET event == deserialize_guild_unavailable_event(p) IN
         IF ~event.ok THEN <<DecodeError>> ELSE
         <<set_guild_availability(event.id, FALSE), dispatch(event.ev)>>
    ELSE LET event == deserialize_guild_leave_event(p) IN
         IF ~event.ok THEN <<DecodeError>> ELSE
         <<delete_guild(event.id), set_guild_availability(event.id, FALSE),
           dispatch(event.ev)>>

on_guild_delete(p) ==
    IF PayloadGetUnavailable(p, FALSE)
    THEN LET event == deserialize_guild_unavailable_event(p) IN
         IF ~event.ok THEN <<DecodeError>> ELSE
         <<set_guild_availability(event.id, FALSE), dispatch(event.ev)>>
    ELSE LET event == deserialize_guild_leave_event(p) IN
         IF ~event.ok THEN <<DecodeError>> ELSE
         <<delete_guild(event.id), dispatch(event.ev)>>

on_guild_emojis_update(p) == DecodeAndDispatch(p, "GuildEmojisUpdateEvent")
on_guild_member_add(p)    == DecodeAndDispatch(p, "GuildMemberAddEvent")
on_guild_member_remove(p) == DecodeAndDispatch(p, "GuildMemberRemoveEvent")
on_guild_member_update(p) == DecodeAndDispatch(p, "GuildMemberUpdateEvent")

\* variant of on_guild_members_chunk: the commented-out line is live
on_guild_members_chunk_dispatches(p) == DecodeAndDispatch(p, "GuildMemberChunkEvent")

\* the body is a comment: no decode, no cache call, no dispatch
on_guild_members_chunk(p) == <<>>

on_guild_role_create(p)  == DecodeAndDispatch(p, "GuildRoleCreateEvent")
on_guild_role_update(p)  == DecodeAndDispatch(p, "GuildRoleUpdateEvent")
on_guild_role_delete(p)  == DecodeAndDispatch(p, "GuildRoleDeleteEvent")
on_presence_update(p)    == DecodeAndDispatch(p, "PresenceUpdateEvent")
on_user_update(p)        == DecodeAndDispatch(p, "OwnUserUpdateEvent")
on_voice_state_update(p) == DecodeAndDispatch(p, "VoiceStateUpdateEvent")

\* ---- scheduling -----------------------------------------------------------------
Idle     == payload.t = "none"
Running  == ~Idle /\ pc <= Len(calls)
\* the handler stands at its end, about to return
Finished == ~Idle /\ pc > Len(calls)

\* The only await of a handler is `await self.dispatch(...)`: other tasks of the
\* event loop run while the handler stands at that call, and not in between the
\* synchronous cache calls.
\* variant: every cache call is a suspension point too
AtAwait_every_call(call) == call.op # "raise"

AtAwait(call) == call.op = "dispatch"

RECURSIVE Final(_, _, _)
\* the cache once the calls cs[i..] have run
Final(c, cs, i) ==
    IF i > Len(cs) \/ cs[i].op = "raise" THEN c
    ELSE Final(Apply(c, cs[i]), cs, i + 1)

\* how a sampled collection relates to the handler's pre- and post-state
View(v, before, after) ==
    IF v = after THEN (IF v = before THEN "same" ELSE "post")
    ELSE IF v = before THEN "pre" ELSE "torn"

GuildEventTypes ==
    {"GuildCreateEvent", "GuildUpdateEvent", "GuildUnavailableEvent", "GuildLeaveEvent"}

Concerns(event, g) ==
    \/ event.type \in GuildEventTypes /\ event.guild = g
    \/ event.type = "ReadyEvent" /\ g \in event.keys

\* ---- actions --------------------------------------------------------------------
Init ==
    /\ cache = EmptyCache
    /\ sink = <<>>
    /\ last_event = [g \in GuildIds |-> "none"]
    /\ delivered = <<>>
    /\ payload = NoPayload
    /\ calls = <<>>
    /\ pc = 1
    /\ pre = EmptyCache
    /\ raised = FALSE
    /\ errors = 0
    /\ nEvents = 0
    /\ observed = "none"

\* The shard hands the next payload to its handler; the handler decodes it.
Receive(p, handler_calls) ==
    /\ Idle
    /\ nEvents < MaxEvents
    /\ payload' = p
    /\ calls' = handler_calls
    /\ pc' = 1
    /\ pre' = cache
    /\ sink' = <<>>
    /\ raised' = FALSE
    /\ nEvents' = nEvents + 1
    /\ observed' = "none"
    /\ UNCHANGED <<cache, last_event, delivered, errors>>

OnConnected    == \E p \in PlainPayloads("CONNECTED") : Receive(p, on_connected(p))
OnDisconnected == \E p \in PlainPayloads("DISCONNECTED") : Receive(p, on_disconnected(p))
OnReady        == \E p \in ReadyPayloads : Receive(p, on_ready(p))
OnResumed      == \E p \in PlainPayloads("RESUMED") : Receive(p, on_resumed(p))
OnChannelCreate == \E p \in ChildPayloads("CHANNEL_CREATE") : Receive(p, on_channel_create(p))
OnChannelUpdate == \E p \in ChildPayloads("CHANNEL_UPDATE") : Receive(p, on_channel_update(p))
OnChannelDelete == \E p \in ChildPayloads("CHANNEL_DELETE") : Receive(p, on_channel_delete(p))
OnChannelPinsUpdate ==
    \E p \in ChildPayloads("CHANNEL_PINS_UPDATE") : Receive(p, on_channel_pins_update(p))
OnGuildCreate == \E p \in GuildPayloads("GUILD_CREATE") : Receive(p, on_guild_create(p))
OnGuildUpdate == \E p \in GuildPayloads("GUILD_UPDATE") : Receive(p, on_guild_update(p))
OnGuildDelete == \E p \in GuildDeletePayloads : Receive(p, on_guild_delete(p))
OnGuildEmojisUpdate ==
    \E p \in ChildPayloads("GUILD_EMOJIS_UPDATE") : Receive(p, on_guild_emojis_update(p))
OnGuildMemberAdd ==
    \E p \in ChildPayloads("GUILD_MEMBER_ADD") : Receive(p, on_guild_member_add(p))
OnGuildMemberRemove ==
    \E p \in ChildPayloads("GUILD_MEMBER_REMOVE") : Receive(p, on_guild_member_remove(p))
OnGuildMemberUpdate ==
    \E p \in ChildPayloads("GUILD_MEMBER_UPDATE") : Receive(p, on_guild_member_update(p))
OnGuildMembersChunk ==
    \E p \in ChildPayloads("GUILD_MEMBERS_CHUNK") : Receive(p, on_guild_members_chunk(p))
OnGuildRoleCreate ==
    \E p \in ChildPayloads("GUILD_ROLE_CREATE") : Receive(p, on_guild_role_create(p))
OnGuildRoleUpdate ==
    \E p \in ChildPayloads("GUILD_ROLE_UPDATE") : Receive(p, on_guild_role_update(p))
OnGuildRoleDelete ==
    \E p \in ChildPayloads("GUILD_ROLE_DELETE") : Receive(p, on_guild_role_delete(p))
OnPresenceUpdate ==
    \E p \in ChildPayloads("PRESENCE_UPDATE") : Receive(p, on_presence_update(p))
OnUserUpdate == \E p \in UserPayloads("USER_UPDATE") : Receive(p, on_user_update(p))
OnVoiceStateUpdate ==
    \E p \in ChildPayloads("VOICE_STATE_UPDATE") : Receive(p, on_voice_state_update(p))

\* the decoder rejects the payload: the exception leaves the handler
Raise ==
    /\ Running
    /\ calls[pc].op = "raise"
    /\ raised' = TRUE
    /\ errors' = errors + 1
    /\ pc' = Len(calls) + 1
    /\ UNCHANGED <<cache, sink, last_event, delivered, payload, calls, pre, nEvents, observed>>

\* the handler's next synchronous call on the cache
CacheCall ==
    /\ Running
    /\ calls[pc].op \notin {"raise", "dispatch"}
    /\ cache' = Apply(cache, calls[pc])
    /\ pc' = pc + 1
    /\ UNCHANGED <<sink, last_event, delivered, payload, calls, pre, raised, errors, nEvents, observed>>

\* await self.dispatch(event)
Dispatch ==
    /\ Running
    /\ calls[pc].op = "dispatch"
    /\ sink' = Append(sink, calls[pc].event)
    /\ delivered' = Append(delivered, nEvents)
    /\ last_event' = [g \in GuildIds |->
            IF Concerns(calls[pc].event, g) THEN calls[pc].event.type ELSE last_event[g]]
    /\ pc' = pc + 1
    /\ UNCHANGED <<cache, payload, calls, pre, raised, errors, nEvents, observed>>

\* the handler returns (normally or by the exception): the shard can hand over
\* the next payload
Return ==
    /\ Finished
    /\ payload' = NoPayload
    /\ calls' = <<>>
    /\ pc' = 1
    /\ pre' = cache
    /\ sink' = <<>>
    /\ raised' = FALSE
    /\ observed' = "none"
    /\ UNCHANGED <<cache, last_event, delivered, errors, nEvents>>

\* another task of the event loop samples one collection of one guild
Read ==
    /\ Running
    /\ AtAwait(calls[pc])
    /\ observed' \in {View(cache.children[k][g], pre.children[k][g],
                            Final(cache, calls, pc).children[k][g]) :
                            g \in GuildIds, k \in Kinds}
    /\ UNCHANGED <<cache, sink, last_event, delivered, payload, calls, pc, pre, raised, errors, nEvents>>

Next ==
    \/ OnConnected \/ OnDisconnected \/ OnReady \/ OnResumed
    \/ OnChannelCreate \/ OnChannelUpdate \/ OnChannelDelete \/ OnChannelPinsUpdate
    \/ OnGuildCreate \/ OnGuildUpdate \/ OnGuildDelete
    \/ OnGuildEmojisUpdate
    \/ OnGuildMemberAdd \/ OnGuildMemberRemove \/ OnGuildMemberUpdate
    \/ OnGuildMembersChunk
    \/ OnGuildRoleCreate \/ OnGuildRoleUpdate \/ OnGuildRoleDelete
    \/ OnPresenceUpdate \/ OnUserUpdate \/ OnVoiceStateUpdate
    \/ Raise \/ CacheCall \/ Dispatch \/ Return

Spec == Init /\ [][Next]_vars

\* the handlers together with reader tasks on the same event loop
NextWithReaders == Next \/ Read
SpecReaders == Init /\ [][NextWithReaders]_vars

TypeOK ==
    /\ cache.me \in UserIds \cup {NoUser}
    /\ cache.guilds \subseteq GuildIds
    /\ cache.unavailable_guilds \subseteq GuildIds
    /\ \A k \in Kinds, g \in GuildIds : cache.children[k][g] \subseteq ChildIds
    /\ pc \in 1..(Len(calls) + 1)
    /\ nEvents \in 0..MaxEvents
    /\ errors \in 0..nEvents
    /\ Len(sink) <= 1

\* ---- properties --------------------------------------------------------------------
\* the handler of a payload of type t has run to its end without raising
Done(t) == Finished /\ payload.t = t /\ ~raised

LeaveBranch(p) == ~PayloadGetUnavailable(p, FALSE)

CacheOps == {"update_me", "set_initial_unavailable_guilds", "update_guild", "delete_guild",
             "set_guild_availability", "clear", "set"}

\* C1: after a guild-create for guild G, each of the six child collections of G
\* holds exactly the children decoded from the payload, whatever it held before.
C1_SnapshotReplaces ==
    Done("GUILD_CREATE") =>
        \A k \in Kinds : cache.children[k][payload.guild] = payload.children[k]

C3_UntouchedOnUpdate ==
    payload.t = "GUILD_UPDATE" =>
        \A k \in {"channels", "members", "presences", "voice_states"} :
            cache.children[k][payload.guild] = pre.children[k][payload.guild]

C3_Witness ==
    /\ Done("GUILD_UPDATE")
    /\ cache.children["roles"][payload.guild] # pre.children["roles"][payload.guild]
    /\ cache.children["emojis"][payload.guild] # pre.children["emojis"][payload.guild]
    /\ \E k \in {"channels", "members", "presences", "voice_states"} :
            pre.children[k][payload.guild] # {}

\* C4: a payload the decoder rejects changes nothing in the cache and dispatches
\* nothing; its handler raises and ends, and the next payload can be handled.
C4_DecodeFailureIsolation ==
    /\ payload.malformed => cache = pre /\ sink = <<>>
    /\ payload.malformed /\ payload.t # "GUILD_MEMBERS_CHUNK" /\ Finished => raised
    /\ raised => Finished /\ payload.malformed /\ cache = pre /\ sink = <<>>
    /\ raised => ENABLED Return
    /\ Idle /\ nEvents < MaxEvents => ENABLED OnReady

\* a payload handled with effect after an earlier payload was rejected
C4_Witness ==
    /\ errors >= 1
    /\ Finished /\ ~raised
    /\ Len(sink) = 1
    /\ cache # pre

\* C5: once the event of a payload is in the sink, every cache call of its handler
\* has been made: the cache is the one the whole recipe yields, and no cache call
\* is left to run.
C5_DispatchAfterMutation ==
    sink # <<>> =>
        /\ cache = Final(pre, calls, 1)
        /\ \A i \in pc..Len(calls) : calls[i].op \notin CacheOps

C5_Witness ==
    /\ payload.t \in {"READY", "GUILD_CREATE", "GUILD_UPDATE", "GUILD_DELETE"}
    /\ Len(sink) = 1
    /\ cache # pre

\* C6: after a guild-delete that is not `unavailable`, the guild record and all six
\* child collections of the guild are gone and one GuildLeaveEvent was dispatched.
C6_CascadeOnDelete ==
    Done("GUILD_DELETE") /\ LeaveBranch(payload) =>
        /\ payload.guild \notin cache.guilds
        /\ \A k \in Kinds : cache.children[k][payload.guild] = {}
        /\ sink = <<Event("GuildLeaveEvent", payload.guild, {})>>

C6_Witness ==
    /\ Done("GUILD_DELETE") /\ LeaveBranch(payload)
    /\ payload.guild \in pre.guilds
    /\ pre.children["channels"][payload.guild] # {}
    /\ pre.children["voice_states"][payload.guild] = {}

\* C7: a guild-delete runs exactly one branch.  unavailable: the guild is marked
\* unavailable, its record and children stay as they were, a GuildUnavailableEvent
\* is dispatched.  Otherwise: the guild is deleted, set_guild_availability is not
\* called, a GuildLeaveEvent is dispatched.  One event per payload.
C7_GuildDeleteExclusive ==
    Done("GUILD_DELETE") =>
        LET g == payload.guild
            ops == {calls[i].op : i \in 1..Len(calls)} IN
        /\ Cardinality({i \in 1..Len(calls) :
                calls[i].op \in {"set_guild_availability", "delete_guild"}}) = 1
        /\ Len(sink) = 1
        /\ IF LeaveBranch(payload)
           THEN /\ "delete_guild" \in ops
                /\ g \notin cache.guilds
                /\ sink[1].type = "GuildLeaveEvent"
           ELSE /\ "set_guild_availability" \in ops
                /\ g \in cache.unavailable_guilds
                /\ cache.guilds = pre.guilds
                /\ cache.children = pre.children
                /\ sink[1].type = "GuildUnavailableEvent"

C7_Witness ==
    /\ Done("GUILD_DELETE") /\ ~LeaveBranch(payload)
    /\ payload.guild \in cache.guilds
    /\ \E k \in Kinds : cache.children[k][payload.guild] # {}

C9_NoOrphanChildren ==
    \A k \in Kinds, g \in GuildIds : cache.children[k][g] # {} => g \in cache.guilds

C9_Witness ==
    /\ Done("GUILD_DELETE") /\ LeaveBranch(payload)
    /\ payload.guild \in pre.guilds
    /\ pre.children["voice_states"][payload.guild] # {}
    /\ payload.guild \notin cache.guilds

\* the collection a per-child event is about
DeltaKind ==
    [CHANNEL_CREATE |-> "channels", CHANNEL_UPDATE |-> "channels", CHANNEL_DELETE |-> "channels",
     GUILD_ROLE_CREATE |-> "roles", GUILD_ROLE_UPDATE |-> "roles", GUILD_ROLE_DELETE |-> "roles",
     GUILD_MEMBER_ADD |-> "members", GUILD_MEMBER_UPDATE |-> "members",
     GUILD_MEMBER_REMOVE |-> "members",
     PRESENCE_UPDATE |-> "presences", VOICE_STATE_UPDATE |-> "voice_states"]

DeltaDeletes == {"CHANNEL_DELETE", "GUILD_ROLE_DELETE", "GUILD_MEMBER_REMOVE"}

\* C10: after a per-child create or update the child is in its collection under the
\* guild of the payload, after a per-child delete it is not; the siblings are as
\* before and the event is in the sink.
C10_ChildDeltaApplied ==
    \A t \in DOMAIN DeltaKind :
        Done(t) =>
            LET before == pre.children[DeltaKind[t]][payload.guild]
                after  == cache.children[DeltaKind[t]][payload.guild] IN
            /\ Len(sink) = 1
            /\ after = IF t \in DeltaDeletes THEN before \ {payload.child}
                       ELSE before \cup {payload.child}

\* the index of the first call of `calls` with the given op, 0 when there is none
FirstCall(op) ==
    IF \E i \in 1..Len(calls) : calls[i].op = op
    THEN CHOOSE i \in 1..Len(calls) :
            calls[i].op = op /\ \A j \in 1..(i - 1) : calls[j].op # op
    ELSE 0

\* C11: a session-ready payload that decodes to user U and guild ids K stores U,
\* then seeds the Unavailable-Guild Set, then dispatches; at the end the own user
\* is U, the set is exactly K, and no guild record or child collection changed.
C11_ReadyRecipe ==
    payload.t = "READY" /\ ~payload.malformed =>
        /\ 0 < FirstCall("update_me")
        /\ FirstCall("update_me") < FirstCall("set_initial_unavailable_guilds")
        /\ FirstCall("set_initial_unavailable_guilds") < FirstCall("dispatch")
        /\ cache.guilds = pre.guilds
        /\ cache.children = pre.children
        /\ pc > FirstCall("update_me") => cache.me = payload.user
        /\ pc <= FirstCall("update_me") => cache.unavailable_guilds = pre.unavailable_guilds
        /\ Finished => /\ cache.me = payload.user
                       /\ cache.unavailable_guilds = payload.keys
                       /\ sink = <<Event("ReadyEvent", NoId, payload.keys)>>

C11_Witness ==
    /\ Done("READY")
    /\ pre.me # payload.user
    /\ pre.unavailable_guilds # payload.keys
    /\ pre.guilds # {}

\* C12: a member-chunk payload, malformed or not, makes no call at all: no decode,
\* no cache call, no dispatch; the handler ends without raising.
C12_MemberChunkNoOp ==
    payload.t = "GUILD_MEMBERS_CHUNK" =>
        /\ calls = <<>>
        /\ Finished
        /\ ~raised
        /\ cache = pre
        /\ sink = <<>>
        /\ ENABLED Return

C12_Witness ==
    /\ payload.t = "GUILD_MEMBERS_CHUNK"
    /\ payload.malformed
    /\ Finished
    /\ cache # EmptyCache

C14_UpdateReplacesRolesAndEmojis ==
    Done("GUILD_UPDATE") =>
        /\ cache.children["roles"][payload.guild] = payload.children["roles"]
        /\ cache.children["emojis"][payload.guild] = payload.children["emojis"]
        /\ \A h \in GuildIds \ {payload.guild} :
              /\ cache.children["roles"][h] = pre.children["roles"][h]
              /\ cache.children["emojis"][h] = pre.children["emojis"][h]

\* a role of the guild that the payload does not carry is gone
C14_Witness ==
    /\ Done("GUILD_UPDATE")
    /\ pre.children["roles"][payload.guild] \ payload.children["roles"] # {}
    /\ cache.children["roles"][payload.guild] = payload.children["roles"]

\* C15: session-ready sets the own user, user-update sets it to the decoded user,
\* and the handler of any other payload leaves it as it was.
C15_SelfUserChanges ==
    /\ Done("READY") => cache.me = payload.user
    /\ Done("USER_UPDATE") => cache.me = payload.user
    /\ payload.t \notin {"READY", "USER_UPDATE"} => cache.me = pre.me

\* the event variant of each payload type with a handler that dispatches
EventTypeOf(p) ==
    CASE p.t = "CONNECTED" -> "ConnectedEvent"
      [] p.t = "DISCONNECTED" -> "DisconnectedEvent"
      [] p.t = "READY" -> "ReadyEvent"
      [] p.t = "RESUMED" -> "ResumedEvent"
      [] p.t = "CHANNEL_CREATE" -> "ChannelCreateEvent"
      [] p.t = "CHANNEL_UPDATE" -> "ChannelUpdateEvent"
      [] p.t = "CHANNEL_DELETE" -> "ChannelDeleteEvent"
      [] p.t = "CHANNEL_PINS_UPDATE" -> "ChannelPinsUpdateEvent"
      [] p.t = "GUILD_CREATE" -> "GuildCreateEvent"
      [] p.t = "GUILD_UPDATE" -> "GuildUpdateEvent"
      [] p.t = "GUILD_DELETE" ->
            IF p.unavailable = "true" THEN "GuildUnavailableEvent" ELSE "GuildLeaveEvent"
      [] p.t = "GUILD_EMOJIS_UPDATE" -> "GuildEmojisUpdateEvent"
      [] p.t = "GUILD_MEMBER_ADD" -> "GuildMemberAddEvent"
      [] p.t = "GUILD_MEMBER_REMOVE" -> "GuildMemberRemoveEvent"
      [] p.t = "GUILD_MEMBER_UPDATE" -> "GuildMemberUpdateEvent"
      [] p.t = "GUILD_ROLE_CREATE" -> "GuildRoleCreateEvent"
      [] p.t = "GUILD_ROLE_UPDATE" -> "GuildRoleUpdateEvent"
      [] p.t = "GUILD_ROLE_DELETE" -> "GuildRoleDeleteEvent"
      [] p.t = "PRESENCE_UPDATE" -> "PresenceUpdateEvent"
      [] p.t = "USER_UPDATE" -> "OwnUserUpdateEvent"
      [] p.t = "VOICE_STATE_UPDATE" -> "VoiceStateUpdateEvent"
      [] OTHER -> "none"

\* C16: payloads are handled one at a time.  A payload of a supported type that
\* decodes puts exactly one event in the sink, of the variant of its type; no
\* handler dispatches more than once; the sink receives the events in the order of
\* the payloads.
C16_OrderedOneToOneDispatch ==
    /\ Len(sink) <= 1
    /\ \A i \in 1..Len(sink) : sink[i].type = EventTypeOf(payload)
    /\ Finished /\ ~payload.malformed /\ EventTypeOf(payload) # "none" =>
            /\ Len(sink) = 1
            /\ delivered # <<>>
            /\ delivered[Len(delivered)] = nEvents
    /\ \A i, j \in 1..Len(delivered) : i < j => delivered[i] < delivered[j]
    /\ Len(delivered) + errors <= nEvents

\* two payloads handled, two events in the sink, in the order of the payloads
C16_Witness ==
    /\ Finished
    /\ delivered = <<1, 2>>
    /\ Len(sink) = 1
    /\ sink[1].type = EventTypeOf(payload)

\* C17: seeding replaces and is idempotent: after a session-ready the set is the
\* decoded one whatever it was before (an equal one, or one with other guilds), and
\* running the same recipe once more would leave the cache as it is.
C17_ReadySeedingReplaces ==
    Done("READY") =>
        /\ cache.unavailable_guilds = payload.keys
        /\ Final(cache, calls, 1) = cache

\* a second session-ready whose set lacks a guild the first one had seeded
C17_Witness ==
    /\ Done("READY")
    /\ \E g \in pre.unavailable_guilds \ payload.keys : last_event[g] = "ReadyEvent"
    /\ payload.keys # {}
    /\ cache.unavailable_guilds = payload.keys

\* the position of a collection in the order of on_guild_create
KindIndex(k) == CHOOSE i \in 1..Len(KindOrder) : KindOrder[i] = k

\* C18: in a guild-create the guild upsert comes first; the six collections are
\* handled in the order channels, emojis, roles, members, presences, voice states;
\* each of the six is cleared for the guild, before any set of that collection.
C18_ClearBeforeSetPerKind ==
    payload.t = "GUILD_CREATE" /\ ~payload.malformed =>
        /\ calls[1].op = "update_guild"
        /\ \A i \in 2..Len(calls) : calls[i].op \in {"clear", "set", "dispatch"}
        /\ \A i, j \in 1..Len(calls) :
              i < j /\ calls[i].op \in {"clear", "set"} /\ calls[j].op \in {"clear", "set"}
                 => KindIndex(calls[i].kind) <= KindIndex(calls[j].kind)
        /\ \A k \in Kinds :
              \E i \in 1..Len(calls) :
                 /\ calls[i] = ClearCall(k, payload.guild)
                 /\ \A j \in 1..Len(calls) :
                       calls[j].op = "set" /\ calls[j].kind = k => i < j

\* C19: the handler of a guild-create, guild-update or guild-delete for guild G
\* makes cache calls for G only, and leaves the record, the availability and the
\* child collections of every other guild as they were.
C19_GuildIsolation ==
    payload.t \in {"GUILD_CREATE", "GUILD_UPDATE", "GUILD_DELETE"} =>
        /\ \A i \in 1..Len(calls) :
              calls[i].op \in CacheOps => calls[i].guild = payload.guild
        /\ \A h \in GuildIds \ {payload.guild} :
              /\ h \in cache.guilds <=> h \in pre.guilds
              /\ h \in cache.unavailable_guilds <=> h \in pre.unavailable_guilds
              /\ \A k \in Kinds : cache.children[k][h] = pre.children[k][h]

C19_Witness ==
    /\ payload.t \in {"GUILD_CREATE", "GUILD_UPDATE", "GUILD_DELETE"}
    /\ Finished /\ ~raised
    /\ cache # pre
    /\ \E h \in GuildIds \ {payload.guild} :
          /\ h \in cache.guilds
          /\ \E k \in Kinds : cache.children[k][h] # {}

\* C20: a guild-delete whose payload has no `unavailable` key, or a false one, is a
\* leave: guild and children are deleted, a GuildLeaveEvent is dispatched.  Only a
\* true one keeps the guild and marks it unavailable.
C20_DefaultDeleteBranch ==
    Done("GUILD_DELETE") =>
        IF payload.unavailable = "true"
        THEN /\ sink = <<Event("GuildUnavailableEvent", payload.guild, {})>>
             /\ payload.guild \in cache.guilds <=> payload.guild \in pre.guilds
             /\ payload.guild \in cache.unavailable_guilds
        ELSE /\ sink = <<Event("GuildLeaveEvent", payload.guild, {})>>
             /\ payload.guild \notin cache.guilds
             /\ payload.guild \notin cache.unavailable_guilds
             /\ \A k \in Kinds : cache.children[k][payload.guild] = {}

C20_Witness ==
    /\ Done("GUILD_DELETE")
    /\ payload.unavailable = "missing"
    /\ payload.guild \in pre.guilds
    /\ payload.guild \notin cache.guilds

====
